---------------------------- MODULE Spec2Model ----------------------------
(* Model of the crawler / merge subsystem of src/src/crawler/vietlott.py:   *)
(* VietlottCrawler.fetch_draw, VietlottCrawler.crawl and update_data, for   *)
(* one product.  The remote site is a list of published draws, each with a  *)
(* date, a result and a "previous draw" link; the persisted store is the    *)
(* product's line-delimited file, one record per line.                      *)
(*                                                                          *)
(* Draw ids are the numbers 1..MaxDraws (the code's digit strings), 0 is    *)
(* the empty cursor "" / a missing previous link (None).  Dates are day     *)
(* numbers: the code keeps them as "YYYY-MM-DD" strings, whose string order *)
(* is the order of the days.  process_time is the value of the clock at     *)
(* the time of the fetch.                                                   *)
EXTENDS Integers, Sequences, FiniteSets

(* ------------------------------ bounds --------------------------------- *)
MaxDraws == 3        \* draws the remote publishes
MaxRuns == 2         \* sessions (update or direct crawl calls) started
MaxPages == 1        \* largest value of update_data's pages argument
MaxRecords == 2      \* largest max_records of a direct crawl call

(* -------------------------- program constants -------------------------- *)
RecordsPerPage == 10 \* update_data: max_records = pages * 10

Procs == {1, 2}
Ids == 1..MaxDraws

VARIABLES
    draws,          \* remote: draws[k] is the draw with id k; the last is the latest
    store,          \* config.data_file: the records, line by line (<<>>: absent)
    clock,          \* number of sessions started; datetime.now() of their fetches
    pc,             \* per process: "idle", "crawl", "merge", "done"
    kind,           \* per process: "update" (update_data) or "crawl" (crawl called directly)
    max_records,    \* crawl's max_records
    existing_ids,   \* update_data's existing_ids / crawl's existing_ids
    existing_data,  \* update_data's existing_data
    all_data,       \* crawl's all_data
    draw_id,        \* crawl's cursor draw_id
    i,              \* crawl's loop counter
    ret,            \* update_data's return value (-1: nothing returned yet)
    log,            \* history: the fetches of the session, [cursor, id, prev]
    stop,           \* history: why the session's loop ended
    before,         \* history: the store when the session began
    stable,         \* history: no draw was published since the session began
    twice,          \* history: what the previous update run was, at this run's end
    prevRun,        \* history: the last finished update run, "none" after a publish
    overlapped,     \* history: an update began while another one was under way
    lost            \* history: the records a rewrite of the store dropped

vars == <<draws, store, clock, pc, kind, max_records, existing_ids, existing_data,
          all_data, draw_id, i, ret, log, stop, before, stable, twice, prevRun,
          overlapped, lost>>

(* ------------------------------ helpers -------------------------------- *)
NoResult == [id |-> 0, date |-> 0, result |-> 0, process_time |-> 0, prev_draw_id |-> 0]

Range(s) == {s[k] : k \in 1..Len(s)}

IdsOf(s) == {s[k].id : k \in 1..Len(s)}

(* fetch_draw against the remote: cursor 0 is the latest draw; a cursor *)
(* the remote does not know, or no draw at all, gives no HTML content.  *)
FetchDraw(cursor, now) ==
    LET k == IF cursor = 0 THEN Len(draws) ELSE cursor
    IN  IF k \in 1..Len(draws)
        THEN [id |-> k, date |-> draws[k].date, result |-> draws[k].result,
              process_time |-> now, prev_draw_id |-> draws[k].prev]
        ELSE NoResult

(* result.pop("prev_draw_id") *)
StripCursor(r) ==
    [id |-> r.id, date |-> r.date, result |-> r.result, process_time |-> r.process_time]

(* Each operator below that the code could get wrong is preceded by a    *)
(* faulty variant of it, the fault named in its comment.                 *)

(* fault: the file is not read *)
ReadNothing(file) == <<>>

(* pl.read_ndjson(...).to_dicts(), [] for an absent file: the lines come *)
(* back as the records json.dumps wrote, with their four fields          *)
ReadStore(file) == file

(* fault: the known ids are not collected *)
NoIds(data) == {}

(* set(existing_df["id"].to_list()) *)
ExistingIds(data) == IdsOf(data)

(* fault: the walker does not look the id up *)
NeverHave(current_id, ids) == FALSE

(* current_id in existing_ids *)
AlreadyHave(current_id, ids) == current_id \in ids

(* max_records = pages * 10 *)
CrawlBound(pages) == pages * RecordsPerPage

(* fault: one iteration too many *)
LoopOneMore(n, bound) == n <= bound

(* for i in range(max_records): another iteration after n of them *)
LoopContinues(n, bound) == n < bound

(* fault: the filter's test is inverted *)
FilterKnown(new_data, ids) == SelectSeq(new_data, LAMBDA r : r.id \in ids)

(* [r for r in new_data if r["id"] not in existing_ids] *)
FilterNew(new_data, ids) == SelectSeq(new_data, LAMBDA r : r.id \notin ids)

(* list.sort(key=date) is stable: a record goes after the records of the *)
(* same date that stood before it.                                       *)
InsertByDate(s, r) ==
    LET n == Cardinality({k \in 1..Len(s) : s[k].date <= r.date})
    IN  SubSeq(s, 1, n) \o <<r>> \o SubSeq(s, n + 1, Len(s))

RECURSIVE SortFrom(_, _)
SortFrom(done, rest) ==
    IF rest = <<>> THEN done
    ELSE SortFrom(InsertByDate(done, Head(rest)), Tail(rest))

(* fault: the merged list is not sorted *)
Unsorted(s) == s

SortByDate(s) == SortFrom(<<>>, s)

(* fault: the existing records are left out of the rewrite *)
MergeNewOnly(old, new_records) == SortByDate(new_records)

(* all_data = existing_data + new_records; all_data.sort(...) *)

Merge(old, new_records) == SortByDate(old \o new_records)

(* fault: the length of the merged list is returned *)
CountAll(merged, new_records) == Len(merged)

(* return len(new_records) *)

UpdateResult(merged, new_records) == Len(new_records)

(* ------------------------------- Init ---------------------------------- *)
Init ==
    /\ draws = <<>>
    /\ store = <<>>
    /\ clock = 0
    /\ pc = [p \in Procs |-> "idle"]
    /\ kind = [p \in Procs |-> "update"]
    /\ max_records = [p \in Procs |-> 0]
    /\ existing_ids = [p \in Procs |-> {}]
    /\ existing_data = [p \in Procs |-> <<>>]
    /\ all_data = [p \in Procs |-> <<>>]
    /\ draw_id = [p \in Procs |-> 0]
    /\ i = [p \in Procs |-> 0]
    /\ ret = [p \in Procs |-> -1]
    /\ log = [p \in Procs |-> <<>>]
    /\ stop = [p \in Procs |-> "none"]
    /\ before = [p \in Procs |-> <<>>]
    /\ stable = [p \in Procs |-> FALSE]
    /\ twice = [p \in Procs |-> "none"]
    /\ prevRun = "none"
    /\ overlapped = FALSE
    /\ lost = {}

(* ----------------------------- the remote ------------------------------ *)
(* The remote publishes its next draw, on the day of the latest one (d =  *)
(* 0) or on the next day (d = 1), with previous link l; its result stands *)
(* for the numbers drawn.  A fetch loop reads the latest draw in its      *)
(* first fetch only, and nothing but the store before that, so a draw     *)
(* published during the loop acts as one published before or after it:    *)
(* the remote moves while no loop is under way, and while a session can   *)
(* still start and see the draw.                                          *)
Extend(d, l) ==
    /\ Len(draws) < MaxDraws
    /\ \A p \in Procs : pc[p] \in {"idle", "merge"}
    /\ clock < MaxRuns
    /\ LET last == IF draws = <<>> THEN 0 ELSE draws[Len(draws)].date
       IN  draws' = Append(draws, [date |-> IF draws = <<>> THEN 1 ELSE last + d,
                                   prev |-> l, result |-> Len(draws) + 1])
    /\ stable' = [p \in Procs |-> FALSE]
    /\ prevRun' = "none"
    /\ UNCHANGED <<store, clock, pc, kind, max_records, existing_ids, existing_data,
                   all_data, draw_id, i, ret, log, stop, before, twice,
                   overlapped, lost>>

(* A chain: each draw links to the one before it or carries no link. *)
Publish ==
    \E d \in 0..1, l \in {0, Len(draws)} : Extend(d, l)

(* The first draw, the end of the chain, links to itself. *)
PublishLoop ==
    /\ draws = <<>>
    /\ Extend(1, 1)

(* Any link: none, any published draw, or the draw itself. *)
PublishAny ==
    \E d \in 0..1, l \in 0..(Len(draws) + 1) : Extend(d, l)

(* --------------------------- session start ----------------------------- *)
StartLoop(p, bound, ids, data, k) ==
    /\ clock < MaxRuns
    /\ clock' = clock + 1
    /\ kind' = [kind EXCEPT ![p] = k]
    /\ max_records' = [max_records EXCEPT ![p] = bound]
    /\ existing_ids' = [existing_ids EXCEPT ![p] = ids]
    /\ existing_data' = [existing_data EXCEPT ![p] = data]
    /\ all_data' = [all_data EXCEPT ![p] = <<>>]
    /\ draw_id' = [draw_id EXCEPT ![p] = 0]
    /\ i' = [i EXCEPT ![p] = 0]
    /\ ret' = [ret EXCEPT ![p] = -1]
    /\ log' = [log EXCEPT ![p] = <<>>]
    /\ before' = [before EXCEPT ![p] = store]
    /\ stable' = [stable EXCEPT ![p] = TRUE]
    /\ twice' = [twice EXCEPT ![p] = "none"]
    /\ pc' = [pc EXCEPT ![p] = IF LoopContinues(0, bound) THEN "crawl" ELSE "merge"]
    /\ stop' = [stop EXCEPT ![p] = IF LoopContinues(0, bound) THEN "none" ELSE "exhausted"]
    /\ UNCHANGED <<draws, store, prevRun, lost>>

(* update_data up to the call of crawl: read the store, start the walker *)
UpdateBegin(p, pages) ==
    /\ pc[p] = "idle"
    /\ LET data == ReadStore(store)
       IN  StartLoop(p, CrawlBound(pages), ExistingIds(data), data, "update")
    /\ overlapped' = (overlapped \/
                      \E q \in Procs \ {p} : kind[q] = "update" /\ pc[q] \in {"crawl", "merge"})

(* crawl called directly with a bound and a known-id set *)
CrawlBegin(p, bound, known) ==
    /\ pc[p] = "idle"
    /\ StartLoop(p, bound, known, <<>>, "crawl")
    /\ UNCHANGED overlapped

(* ------------------------- one loop iteration -------------------------- *)
CrawlStep(p, outcome) ==
    /\ pc[p] = "crawl"
    /\ LET result == IF outcome = "ok" THEN FetchDraw(draw_id[p], clock) ELSE NoResult
           entry == [cursor |-> draw_id[p], id |-> result.id, prev |-> result.prev_draw_id]
           end(why) == /\ pc' = [pc EXCEPT ![p] = "merge"]
                       /\ stop' = [stop EXCEPT ![p] = why]
       IN  /\ log' = [log EXCEPT ![p] = Append(@, entry)]
           /\ IF result = NoResult
              THEN /\ end("no_result")
                   /\ UNCHANGED <<all_data, draw_id, i>>
              ELSE IF AlreadyHave(result.id, existing_ids[p])
              THEN /\ end("known")
                   /\ UNCHANGED <<all_data, draw_id, i>>
              ELSE /\ all_data' = [all_data EXCEPT ![p] = Append(@, StripCursor(result))]
                   /\ IF result.prev_draw_id # 0
                      THEN /\ draw_id' = [draw_id EXCEPT ![p] = result.prev_draw_id]
                           /\ i' = [i EXCEPT ![p] = @ + 1]
                           /\ IF LoopContinues(i[p] + 1, max_records[p])
                              THEN UNCHANGED <<pc, stop>>
                              ELSE end("exhausted")
                      ELSE /\ end("no_prev")
                           /\ UNCHANGED <<draw_id, i>>
    /\ UNCHANGED <<draws, store, clock, kind, max_records, existing_ids, existing_data,
                   ret, before, stable, twice, prevRun, overlapped, lost>>

(* --------------------------- session end ------------------------------- *)
(* crawl returns all_data to its direct caller *)
CrawlReturn(p) ==
    /\ pc[p] = "merge"
    /\ kind[p] = "crawl"
    /\ pc' = [pc EXCEPT ![p] = "done"]
    /\ UNCHANGED <<draws, store, clock, kind, max_records, existing_ids, existing_data,
                   all_data, draw_id, i, ret, log, stop, before, stable, twice,
                   prevRun, overlapped, lost>>

(* update_data after crawl: filter, merge, sort, rewrite the file, return *)
UpdateFinish(p) ==
    /\ pc[p] = "merge"
    /\ kind[p] = "update"
    /\ LET new_data == all_data[p]
           new_records == FilterNew(new_data, existing_ids[p])
       IN  IF new_data = <<>> \/ new_records = <<>>
           THEN /\ ret' = [ret EXCEPT ![p] = 0]
                /\ UNCHANGED <<store, lost>>
           ELSE /\ store' = Merge(existing_data[p], new_records)
                /\ lost' = lost \cup (Range(store) \ Range(store'))
                /\ ret' = [ret EXCEPT ![p] = UpdateResult(store', new_records)]
    /\ pc' = [pc EXCEPT ![p] = "done"]
    /\ twice' = [twice EXCEPT ![p] = prevRun]
    /\ prevRun' = IF ~stable[p] THEN "none"
                  ELSE IF log[p] # <<>> /\ log[p][1].id # 0 THEN "reached" ELSE "missed"
    /\ UNCHANGED <<draws, clock, kind, max_records, existing_ids, existing_data,
                   all_data, draw_id, i, log, stop, before, stable, overlapped>>

(* the call has returned: its locals are gone *)
Forget(p) ==
    /\ pc[p] = "done"
    /\ pc' = [pc EXCEPT ![p] = "idle"]
    /\ kind' = [kind EXCEPT ![p] = "update"]
    /\ max_records' = [max_records EXCEPT ![p] = 0]
    /\ existing_ids' = [existing_ids EXCEPT ![p] = {}]
    /\ existing_data' = [existing_data EXCEPT ![p] = <<>>]
    /\ all_data' = [all_data EXCEPT ![p] = <<>>]
    /\ draw_id' = [draw_id EXCEPT ![p] = 0]
    /\ i' = [i EXCEPT ![p] = 0]
    /\ ret' = [ret EXCEPT ![p] = -1]
    /\ log' = [log EXCEPT ![p] = <<>>]
    /\ stop' = [stop EXCEPT ![p] = "none"]
    /\ before' = [before EXCEPT ![p] = <<>>]
    /\ stable' = [stable EXCEPT ![p] = FALSE]
    /\ twice' = [twice EXCEPT ![p] = "none"]
    /\ UNCHANGED <<draws, store, clock, prevRun, overlapped, lost>>

(* --------------------------- specifications ---------------------------- *)
Outcomes == {"ok", "transport", "parse"}

(* update_data called again and again by one caller, as the driver does, *)
(* against a chain of draws whose end may link to itself                 *)
Next ==
    \/ Publish
    \/ PublishLoop
    \/ \E pages \in 1..MaxPages : UpdateBegin(1, pages)
    \/ \E o \in Outcomes : CrawlStep(1, o)
    \/ UpdateFinish(1)
    \/ Forget(1)

Spec == Init /\ [][Next]_vars

(* Two processes updating the same store, with no locking, against a chain *)
(* of draws.  The processes meet at                                        *)
(* the store alone: one reads it when it begins and rewrites it when it    *)
(* finishes.  A fetch touches nothing the other process reads, so a        *)
(* process moves while the other one is idle or waits to write.            *)
Turn(p) == \A q \in Procs \ {p} : pc[q] \in {"idle", "merge"}

(* The processes are alike: of two idle ones, process 1 begins. *)
First(p) == p = 1 \/ pc[1] # "idle"

NextConc ==
    \/ Publish
    \/ \E p \in Procs, pages \in 1..MaxPages : Turn(p) /\ First(p) /\ UpdateBegin(p, pages)
    \/ \E p \in Procs, o \in Outcomes : Turn(p) /\ CrawlStep(p, o)
    \/ \E p \in Procs : Turn(p) /\ UpdateFinish(p)
    \/ \E p \in Procs : Turn(p) /\ Forget(p)

SpecConc == Init /\ [][NextConc]_vars

(* the walker called directly, with any bound and any known-id set, against *)
(* a remote with any links                                                  *)
NextCrawl ==
    \/ PublishAny
    \/ \E bound \in 0..MaxRecords, known \in SUBSET Ids : CrawlBegin(1, bound, known)
    \/ \E o \in Outcomes : CrawlStep(1, o)
    \/ CrawlReturn(1)
    \/ Forget(1)

SpecCrawl == Init /\ [][NextCrawl]_vars

(* ------------------------------ properties ----------------------------- *)
Finished(p) == pc[p] = "done"

(* how often the record r stands in s *)
Count(s, r) == Cardinality({k \in 1..Len(s) : s[k] = r})

(* the records crawled in the session whose ids the store did not hold when *)
(* the session began                                                        *)
NewOf(p) == SelectSeq(all_data[p], LAMBDA r : r.id \notin IdsOf(before[p]))

(* the store holds the records of s and those of n, each as often as they do *)
HoldsBoth(s, n) ==
    \A r \in Range(store) \cup Range(s) \cup Range(n) :
        Count(store, r) = Count(s, r) + Count(n, r)

(* C1: no two records of the persisted store have the same id, whatever the *)
(* remote answered.  The walker does not remember the ids it accumulated in *)
(* the session: a previous link that leads back to a fetched draw puts it   *)
(* in the store again.                                                      *)
IdsUnique ==
    \A j, k \in 1..Len(store) : j # k => store[j].id # store[k].id

(* C2, as stated: the persisted store is strictly ascending by date from *)
(* its first line to its last.                                           *)
StrictlyAscending ==
    \A k \in 1..(Len(store) - 1) : store[k].date < store[k + 1].date

(* C2, amended: the persisted store is ascending by date from its first  *)
(* line to its last, records of the same date standing next to each      *)
(* other.                                                                *)
AscendingByDate ==
    \A k \in 1..(Len(store) - 1) : store[k].date <= store[k + 1].date

(* C2, witness: an update has merged two draws of the same day. *)
SameDateMerged ==
    \E p \in Procs :
        /\ Finished(p) /\ ret[p] > 0
        /\ \E j, k \in 1..Len(store) :
              /\ j < k
              /\ store[j].date = store[k].date
              /\ store[j].id # store[k].id

(* C3, as stated: an update that ends after another one, with no draw    *)
(* published since that one began, returns 0 and leaves the store as it  *)
(* was.                                                                  *)
IdempotentUpdate ==
    \A p \in Procs :
        (Finished(p) /\ twice[p] # "none") => (ret[p] = 0 /\ store = before[p])

(* C3, amended: the same, when the first fetch of the earlier update     *)
(* returned a record.                                                    *)
IdempotentAfterReached ==
    \A p \in Procs :
        (Finished(p) /\ twice[p] = "reached") => (ret[p] = 0 /\ store = before[p])

(* C3, witness: the second update fetched the latest draw, found it in a *)
(* store the first one had written, and returned 0.                      *)
SecondRunFoundKnown ==
    \E p \in Procs :
        /\ Finished(p) /\ twice[p] = "reached"
        /\ store # <<>>
        /\ stop[p] = "known"
        /\ ret[p] = 0

(* C4: a fetched record whose id is in the known-id set is the last fetch *)
(* of the session; the loop has ended there, the record is not in the     *)
(* list, and the list holds the records of the fetches before it.         *)
DedupStop ==
    \A p \in Procs :
        /\ \A k \in 1..Len(log[p]) :
              log[p][k].id \in existing_ids[p] =>
                  /\ k = Len(log[p])
                  /\ pc[p] \in {"merge", "done"}
                  /\ stop[p] = "known"
                  /\ Len(all_data[p]) = k - 1
                  /\ \A j \in 1..(k - 1) : all_data[p][j].id = log[p][j].id
        /\ \A r \in Range(all_data[p]) : r.id \notin existing_ids[p]

(* C4, witness: the walker returned one record and stopped at a known one. *)
StoppedAtKnown ==
    \E p \in Procs :
        /\ Finished(p) /\ kind[p] = "crawl"
        /\ stop[p] = "known"
        /\ Len(all_data[p]) >= 1
        /\ log[p][Len(log[p])].id \in existing_ids[p]

(* every fetch of the session returned an unknown record with a previous link *)
Unbroken(p) ==
    \A k \in 1..Len(log[p]) :
        /\ log[p][k].id # 0
        /\ log[p][k].id \notin existing_ids[p]
        /\ log[p][k].prev # 0

(* C5: a session makes at most max_records fetches and returns at most   *)
(* max_records records; one that no failure, known id or missing link    *)
(* ended returns exactly max_records records.                            *)
FetchBound ==
    \A p \in Procs :
        /\ Len(log[p]) <= max_records[p]
        /\ Len(all_data[p]) <= max_records[p]
        /\ (pc[p] \in {"merge", "done"} /\ Unbroken(p)) =>
              (Len(all_data[p]) = max_records[p] /\ stop[p] = "exhausted")

(* C5, witness: max_records = 2 against a chain of three unknown draws: *)
(* the two latest are returned.                                         *)
BoundReached ==
    \E p \in Procs :
        /\ Finished(p) /\ kind[p] = "crawl"
        /\ max_records[p] = 2
        /\ Len(draws) = 3 /\ draws[3].prev = 2 /\ draws[2].prev = 1
        /\ existing_ids[p] = {}
        /\ Len(all_data[p]) = 2
        /\ all_data[p][1].id = 3 /\ all_data[p][2].id = 2

(* C6: update returns the number of records crawled in the session whose *)
(* ids the store did not hold, and the store then holds the records it   *)
(* held before and those.                                                *)
UpdateReturnsNewCount ==
    \A p \in Procs :
        Finished(p) => (ret[p] = Len(NewOf(p)) /\ HoldsBoth(before[p], NewOf(p)))

(* C6, witness: no store, a chain 3 -> 2 -> 1 whose draw 1 has no link:  *)
(* the store ends with the three records and update returns 3.           *)
ScenarioA ==
    \E p \in Procs :
        /\ Finished(p)
        /\ before[p] = <<>>
        /\ Len(log[p]) = 3
        /\ log[p][1].id = 3 /\ log[p][2].id = 2 /\ log[p][3].id = 1
        /\ stop[p] = "no_prev"
        /\ Len(store) = 3
        /\ IdsOf(store) = {1, 2, 3}
        /\ ret[p] = 3

(* C7: an update whose fetch failed after k >= 1 records returns k, and *)
(* the store holds the records it held before and those k.              *)
PartialFailurePersists ==
    \A p \in Procs :
        (Finished(p) /\ stop[p] = "no_result" /\ Len(all_data[p]) >= 1) =>
            (ret[p] = Len(all_data[p]) /\ HoldsBoth(before[p], all_data[p]))

(* C7, witness: a fetch failed after one record, which was merged into a *)
(* store that held records.                                              *)
FailedAfterOne ==
    \E p \in Procs :
        /\ Finished(p)
        /\ stop[p] = "no_result"
        /\ Len(log[p]) = 2 /\ log[p][1].id # 0 /\ log[p][2].id = 0
        /\ before[p] # <<>>
        /\ ret[p] = 1
        /\ Len(store) = Len(before[p]) + 1

(* C8: every record the store held when the update began is in the store *)
(* when it has ended, field for field and as often as before.            *)
ExistingRecordsKept ==
    \A p \in Procs :
        Finished(p) => \A r \in Range(before[p]) : Count(store, r) >= Count(before[p], r)

(* C8, witness: an update has rewritten a store that held records. *)
RewroteHistory ==
    \E p \in Procs :
        /\ Finished(p)
        /\ before[p] # <<>>
        /\ ret[p] > 0
        /\ store # before[p]

(* C9: a rewrite of the store drops a record only when two updates were *)
(* under way together: updates that run one after the other lose none.  *)
LostOnlyIfInterleaved ==
    lost # {} => overlapped

(* C9, witness: two updates read the store before either wrote it, and a *)
(* draw one of them had written is gone from the store.                  *)
LostUpdate ==
    /\ overlapped
    /\ \E r \in lost : r.id \notin IdsOf(store)

(* C10: the first fetch of a session uses the empty cursor, each later  *)
(* one the previous link of the record before it, and no draw is        *)
(* fetched twice in the session.  Nothing in the walker keeps it from   *)
(* following a link back to a draw it has fetched.                      *)
BackwardTraversal ==
    \A p \in Procs :
        /\ log[p] # <<>> => log[p][1].cursor = 0
        /\ \A k \in 2..Len(log[p]) : log[p][k].cursor = log[p][k - 1].prev
        /\ \A j, k \in 1..Len(log[p]) :
              (j < k /\ log[p][k].id # 0) => log[p][j].id # log[p][k].id

(* C11: no record the walker returned has an id of the known-id set it  *)
(* was given, so update's own filter keeps the whole list, update        *)
(* returns its length, and update returns 0 exactly when the list is     *)
(* empty.                                                                *)
FilterKeepsAll ==
    \A p \in Procs :
        /\ \A r \in Range(all_data[p]) : r.id \notin existing_ids[p]
        /\ Finished(p) =>
              /\ FilterNew(all_data[p], existing_ids[p]) = all_data[p]
              /\ ret[p] = Len(all_data[p])
              /\ (ret[p] = 0 <=> all_data[p] = <<>>)

(* C11, witness: against a store that held records the walker returned a *)
(* record and stopped at a known one; update kept the record.            *)
KeptAllBeforeKnown ==
    \E p \in Procs :
        /\ Finished(p)
        /\ existing_ids[p] # {}
        /\ stop[p] = "known"
        /\ all_data[p] # <<>>
        /\ ret[p] = Len(all_data[p])

=============================================================================
